---- MODULE Spec2Model ----
(***************************************************************************)
(* A model of the DRM gralloc module facade (gralloc.cpp): lazy device     *)
(* bring-up, buffer-object creation and destruction, the process-wide      *)
(* registry all_records, handle registration, the generic and planar lock  *)
(* paths and the perform() control channel.                                *)
(*                                                                         *)
(* Spec      : one host thread; every handler is one atomic step.          *)
(* SpecDevice, SpecImport, SpecAlloc, SpecPlanar, SpecDump: the same, over *)
(*             the inputs of one family of handlers each.                  *)
(* SpecInit  : several host threads inside drm_init, one step per          *)
(*             statement.                                                  *)
(* SpecRace  : several host threads inside alloc, free and dump, one step  *)
(*             per statement and per registry access.                      *)
(*                                                                         *)
(* The collaborators gralloc_drm_* live in gralloc_drm.cpp, which is not   *)
(* part of the sources at hand; they are modelled from the specification   *)
(* (sections 3, 4.3-4.6) and are marked so in the model map.               *)
(***************************************************************************)
EXTENDS Integers, Sequences, FiniteSets, TLC

\* ------------------------------------------------------------ bounds
MaxBO      == 1   \* buffer objects this process may allocate
MaxForeign == 1   \* handles received from another process
MaxRef     == 2   \* cap on a BO's reference count
MaxOpen    == 1   \* allocator devices open at the same time
MaxW       == 4   \* widths 1..MaxW
MaxPad     == 3   \* driver row padding, in bytes, 0..MaxPad
MaxFd      == 2   \* device descriptors 1..MaxFd
MaxOff     == 1   \* plane offsets 0..MaxOff
MaxPitch   == 2   \* plane pitches 1..MaxPitch
MaxAddr    == 1   \* mapping addresses 1..MaxAddr
MaxImport  == 1   \* times one foreign handle may be imported
NThreads   == 2   \* host threads inside drm_init
MaxCalls   == 2   \* drm_init calls per thread
MaxDev     == 2   \* devices the driver adapter can construct
MaxLen     == 160 \* dump: buffer lengths 0..MaxLen
MaxVar     == 1   \* dump: characters a line may have above the shortest

\* ------------------------------------------------------------ constants
EINVAL == 22
ENOMEM == 12
NULL   == 0

\* strlen("dump all buffer objects info:\n")
HeaderLen == 30
\* The characters of the line format of dump that are no conversion.
LineFixed == 53
\* The fewest characters the six conversions (%p %p %d %d %x %x) print.
MinVar    == 10

\* The error kinds of the specification, section 7, as the code returns them.
DeviceInit  == -EINVAL
BadFormat   == -EINVAL
BadHandle   == -EINVAL
BadName     == -EINVAL
BadOp       == -EINVAL
Unsupported == -EINVAL
OutOfMemory == -ENOMEM

Local   == 1..MaxBO
Foreign == (MaxBO + 1)..(MaxBO + MaxForeign)
Handles == Local \cup Foreign

Formats == {"RGBA_8888", "RGB_565", "YV12", "YCbCr_420_888",
            "IMPLEMENTATION_DEFINED", "UNKNOWN"}
ForeignFormats == {"YV12"}
Fds     == 1..MaxFd
Names   == {"gpu0", "fb0"}
Threads == 1..NThreads
DevPtrs == 1..MaxDev

VARIABLES
    drm,          \* dmod->drm: NULL or the pointer to the device
    device,       \* the object dmod->drm points to: [fd, alive]
    nAlloc,       \* allocator devices opened and not yet closed
    nextBo,       \* the next buffer object the driver will create
    bos,          \* handle -> [refcount, locked, format]: the handle and its BO
    all_records,  \* the registry: the keys of std::map all_records
    last,         \* the last call: [op, h, usage, err, out]
    allocd,       \* history: BOs created by a successful alloc, not yet freed
    freed,        \* history: handles for which a free returned success
    released,     \* history: imported handle -> times its BO was released
    hist,         \* history: imported handle -> the calls followed on it
    fds,          \* history: descriptors returned by perform(GET_DRM_FD)
    mutex,        \* dmod->mutex: NULL or the thread holding it
    pc,           \* SpecInit: thread -> its place in drm_init
    tmp,          \* SpecInit: thread -> the device it has constructed
    seen,         \* SpecInit: thread -> the device it used after drm_init
    ierr,         \* SpecInit: thread -> err of its drm_init call
    devs,         \* SpecInit: device pointer -> "none", "partial", "complete"
    calls,        \* SpecInit, SpecRace: thread -> calls made
    hpc,          \* SpecRace: thread -> its place in create, destroy or dump
    hbo,          \* SpecRace: thread -> the local variable bo of its call
    raced,        \* SpecRace: thread -> its registry access overlaps a write
    dstat         \* SpecRace: history: handle -> the free calls made on it

mainVars == <<drm, device, nAlloc, nextBo, bos, all_records, last,
              allocd, freed, released, hist, fds>>
raceVars == <<hpc, hbo, raced, dstat>>
thrVars  == <<mutex, pc, tmp, seen, ierr, devs, calls, raceVars>>
vars     == <<mainVars, thrVars>>

NoOut  == [none |-> TRUE]
NoBo   == [refcount |-> 0, locked |-> FALSE, format |-> "NONE"]
NoDev  == [fd |-> 0, alive |-> FALSE]

\* The device states of section 4.9.
DeviceState ==
    IF drm = NULL THEN "Unborn" ELSE IF device.alive THEN "Live" ELSE "Dead"

\* What gralloc_drm_create() may return: NULL, or a device.
CreateOutcomes ==
    {NoDev} \cup [fd : Fds, alive : {TRUE}]

\* ------------------------------------------------- driver adapter
\* gralloc_drm_get_bpp: bytes per pixel of a format, 0 for an unknown one.
gralloc_drm_get_bpp(format) ==
    CASE format = "RGBA_8888"     -> 4
      [] format = "RGB_565"       -> 2
      [] format = "YV12"          -> 1
      [] format = "YCbCr_420_888" -> 1
      [] OTHER                    -> 0

\* gralloc_drm_bo_from_handle: the BO of a handle, NULL for an unknown handle.
gralloc_drm_bo_from_handle(h) ==
    IF h \in Handles /\ bos[h].refcount > 0 THEN h ELSE NULL

\* gralloc_drm_bo_decref: drop one reference; the BO is released at zero.
gralloc_drm_bo_decref(b, bo) ==
    IF b[bo].refcount = 1
    THEN [b EXCEPT ![bo].refcount = 0, ![bo].locked = FALSE]
    ELSE [b EXCEPT ![bo].refcount = @ - 1]

\* gralloc_drm_handle_register: import the handle (a foreign handle gets its
\* local BO) and take a reference.  imported: the outcome of the import.
gralloc_drm_handle_register(b, h, imported) ==
    IF b[h].refcount > 0
    THEN [err |-> 0, bos |-> [b EXCEPT ![h].refcount = @ + 1]]
    ELSE IF h \in Foreign /\ imported
    THEN [err |-> 0, bos |-> [b EXCEPT ![h].refcount = 1]]
    ELSE [err |-> -EINVAL, bos |-> b]

\* gralloc_drm_handle_unregister: drop the reference register took.
gralloc_drm_handle_unregister(b, h) ==
    IF gralloc_drm_bo_from_handle(h) = NULL
    THEN [err |-> -EINVAL, bos |-> b]
    ELSE [err |-> 0, bos |-> gralloc_drm_bo_decref(b, h)]

\* gralloc_drm_bo_lock: map the BO; ok and addr are the driver's outcome.
gralloc_drm_bo_lock(b, bo, ok, addr) ==
    IF ok THEN [err |-> 0, bos |-> [b EXCEPT ![bo].locked = TRUE], ptr |-> addr]
    ELSE [err |-> -EINVAL, bos |-> b, ptr |-> NULL]

\* gralloc_drm_bo_unlock: release the mapping.
gralloc_drm_bo_unlock(b, bo) == [b EXCEPT ![bo].locked = FALSE]

\* gralloc_drm_get_fd: the descriptor of the device; g is what a read of a
\* destroyed device yields.
gralloc_drm_get_fd(g) == IF device.alive THEN device.fd ELSE g

\* ------------------------------------------------- uint32_t and pointers
\* a - b in uint32_t: the value wraps * 2^32 + delta, in 0 .. 2^32 - 1.
U32Sub(a, b) ==
    IF a >= b THEN [wraps |-> 0, delta |-> a - b]
    ELSE [wraps |-> 1, delta |-> a - b]

\* (uint8_t *)ptr + u: the address base + wraps * 2^32 + delta.
PtrAdd(ptr, u) == [base |-> ptr, wraps |-> u.wraps, delta |-> u.delta]

Ptr(ptr) == [base |-> ptr, wraps |-> 0, delta |-> 0]

IsNullPtr(p) == p.base = NULL /\ p.wraps = 0 /\ p.delta = 0

\* ------------------------------------------------- drm_init, one thread
\* c is what gralloc_drm_create() returns if it is called.
drm_init_drm(c)    == IF drm = NULL /\ c # NoDev THEN 1 ELSE drm
drm_init_device(c) == IF drm = NULL /\ c # NoDev THEN c ELSE device
\* A drm_init that reports success whatever gralloc_drm_create returns.
drm_init_ok(c)     == 0
drm_init(c)        == IF drm = NULL /\ c = NoDev THEN -EINVAL ELSE 0

\* ------------------------------------------------- buffer life cycle
\* The result of a handler: its status and the state it leaves.
Result(err, b, recs, next, out) ==
    [err |-> err, bos |-> b, recs |-> recs, next |-> next, out |-> out]

Failed(err) == Result(err, bos, all_records, nextBo, NoOut)

\* No substitution.
SubstituteNone(format) == format

SubstituteFormat(format) ==
    IF format = "IMPLEMENTATION_DEFINED" THEN "RGBA_8888" ELSE format

\* The division rounding up instead of down.
PixelStrideUp(pitch, bpp) == (pitch + bpp - 1) \div bpp

\* *stride /= bpp: the byte pitch as a stride in pixels.
PixelStride(pitch, bpp) == pitch \div bpp

\* The insert left out.
RegistryInsertNone(recs, bo) == recs

\* all_records.insert(std::make_pair(bo, handle)): an existing key is kept.
RegistryInsert(recs, bo) == recs \cup {bo}

\* The erase left out.
RegistryEraseNone(recs, bo) == recs

\* all_records.erase(it)
RegistryErase(recs, bo) == recs \ {bo}

\* drvBo: whether the driver creates the BO; pad: the padding of its rows.
drm_mod_create_buffer(w, format, drvBo, pad) ==
    LET fmt == SubstituteFormat(format)
        bpp == gralloc_drm_get_bpp(fmt)
        bo  == IF drvBo THEN nextBo ELSE NULL
        pitch == w * bpp + pad
    IN  IF bpp = 0 THEN Failed(-EINVAL)
        ELSE IF bo = NULL THEN Failed(-ENOMEM)
        ELSE Result(0,
                    [bos EXCEPT ![bo] = [refcount |-> 1, locked |-> FALSE,
                                         format |-> fmt]],
                    RegistryInsert(all_records, bo),
                    nextBo + 1,
                    [handle |-> bo, stride |-> PixelStride(pitch, bpp),
                     width |-> w, pitch |-> pitch, bpp |-> bpp])

drm_mod_destroy_buffer(h) ==
    LET bo == gralloc_drm_bo_from_handle(h)
    IN  IF bo = NULL THEN Failed(-EINVAL)
        ELSE LET b == gralloc_drm_bo_decref(bos, bo)
             IN  IF bo \notin all_records
                 THEN Result(-EINVAL, b, all_records, nextBo, NoOut)
                 ELSE Result(0, b, RegistryErase(all_records, bo), nextBo, NoOut)

\* imported: the outcome of the driver's import, when one is made.
drm_mod_register_buffer(h, imported) ==
    LET r == gralloc_drm_handle_register(bos, h, imported)
    IN  Result(r.err, r.bos, all_records, nextBo, NoOut)

\* An unregister that drops the reference twice.
drm_mod_unregister_buffer_twice(h) ==
    LET r == gralloc_drm_handle_unregister(bos, h)
    IN  Result(r.err,
               IF r.err = 0 /\ r.bos[h].refcount > 0
               THEN gralloc_drm_bo_decref(r.bos, h) ELSE r.bos,
               all_records, nextBo, NoOut)

drm_mod_unregister_buffer(h) ==
    LET r == gralloc_drm_handle_unregister(bos, h)
    IN  Result(r.err, r.bos, all_records, nextBo, NoOut)

\* ------------------------------------------------- history
\* The history is kept for the handles in DOMAIN hist: the releases of the
\* BO by a step that leaves the table b, and the calls followed on it.
ReleasedBy(b) ==
    [x \in DOMAIN released |->
        released[x] + IF bos[x].refcount > 0 /\ b[x].refcount = 0 THEN 1 ELSE 0]

R0 == [op |-> "register", err |-> 0]
U0 == [op |-> "unregister", err |-> 0]

\* The calls that are followed: register, register, unregister, unregister,
\* each returning success.  Any other call on the handle ends the following.
Followed == <<R0, R0, U0, U0>>
Other    == <<[op |-> "other", err |-> 0]>>

HistAdd(h, op, err) ==
    IF h \in DOMAIN hist
    THEN LET s == Append(hist[h], [op |-> op, err |-> err])
         IN  [hist EXCEPT ![h] =
                 IF Len(s) <= Len(Followed) /\ s = SubSeq(Followed, 1, Len(s))
                 THEN s ELSE Other]
    ELSE hist

CreateOps  == {"alloc", "CREATE_BUFFER"}
DestroyOps == {"free", "DESTROY_BUFFER"}
RefOps     == {"register", "unregister"} \cup DestroyOps

\* A handler returned: the state it leaves, the record of the call and the
\* history.
ReturnOf(op, h, usage, r) ==
    /\ bos' = r.bos
    /\ all_records' = r.recs
    /\ nextBo' = r.next
    /\ last' = [op |-> op, h |-> h, usage |-> usage, err |-> r.err, out |-> r.out]
    /\ released' = ReleasedBy(r.bos)
    /\ allocd' = IF op \in CreateOps /\ r.err = 0 THEN allocd \cup {r.out.handle}
                 ELSE IF op \in DestroyOps /\ r.err = 0 THEN allocd \ {h}
                 ELSE allocd
    /\ freed' = IF op \in DestroyOps /\ r.err = 0 THEN freed \cup {h} ELSE freed
    /\ hist' = IF op \in RefOps THEN HistAdd(h, op, r.err) ELSE hist
    /\ fds' = IF op = "GET_DRM_FD" /\ r.err = 0 THEN fds \cup {r.out.fd} ELSE fds

\* ------------------------------------------------- lock paths
\* A switch that lets every format with a bpp through.
IsAnyFormat(format) == gralloc_drm_get_bpp(format) # 0

\* switch(handle->format): the formats drm_mod_lock_ycbcr accepts.
IsPlanarFormat(format) == format \in {"YV12", "YCbCr_420_888"}

\* What gralloc_drm_resolve_format may report for a three-plane buffer:
\* pitches[0..3] and offsets[0..3]; both chroma planes have one pitch and
\* there is no fourth plane.
PlanePitches ==
    {f \in [0..3 -> 0..MaxPitch] : f[0] > 0 /\ f[1] > 0 /\ f[2] = f[1] /\ f[3] = 0}
PlaneOffsets == {f \in [0..3 -> 0..MaxOff] : f[3] = 0}
Addrs        == 1..MaxAddr
Usages       == {0, 1}

\* The descriptor drm_mod_lock_ycbcr fills in.
YcbcrOut(ptr, pitches, offsets) ==
    [pitches |-> pitches,
     offsets |-> offsets,
     y       |-> Ptr(ptr),
     cb      |-> PtrAdd(ptr, U32Sub(offsets[1], offsets[2])),
     cr      |-> PtrAdd(ptr, U32Sub(offsets[2], offsets[0])),
     ystride |-> pitches[0],
     cstride |-> pitches[1],
     chroma_step |-> 1]

\* ok, addr: the outcome of the driver's map.
drm_mod_lock(h, ok, addr) ==
    LET bo == gralloc_drm_bo_from_handle(h)
    IN  IF bo = NULL THEN Failed(-EINVAL)
        ELSE LET lk == gralloc_drm_bo_lock(bos, bo, ok, addr)
             IN  Result(lk.err, lk.bos, all_records, nextBo,
                        IF lk.err = 0 THEN [ptr |-> Ptr(lk.ptr)] ELSE NoOut)

drm_mod_lock_ycbcr(h, usage, ok, addr, pitches, offsets) ==
    LET bo == gralloc_drm_bo_from_handle(h)
    IN  IF bo = NULL THEN Failed(-EINVAL)
        ELSE IF ~IsPlanarFormat(bos[bo].format) THEN Failed(-EINVAL)
        ELSE LET lk == IF usage # 0
                       THEN gralloc_drm_bo_lock(bos, bo, ok, addr)
                       ELSE [err |-> 0, bos |-> bos, ptr |-> NULL]
             IN  IF lk.err # 0 THEN Failed(lk.err)
                 ELSE Result(0, lk.bos, all_records, nextBo,
                             YcbcrOut(lk.ptr, pitches, offsets))

\* An unlock that leaves the mapping in place.
drm_mod_unlock_noop(h) ==
    LET bo == gralloc_drm_bo_from_handle(h)
    IN  IF bo = NULL THEN Failed(-EINVAL) ELSE Failed(0)

drm_mod_unlock(h) ==
    LET bo == gralloc_drm_bo_from_handle(h)
    IN  IF bo = NULL THEN Failed(-EINVAL)
        ELSE Result(0, gralloc_drm_bo_unlock(bos, bo), all_records, nextBo, NoOut)

\* ------------------------------------------------- perform
\* gralloc_drm_handle: the handle as a gralloc handle, NULL if it is none.
gralloc_drm_handle(h) ==
    IF h \in Foreign \/ (h \in Local /\ bos[h].refcount > 0) THEN h ELSE NULL

\* dmod->drm->drv->resolve_buffer: rb, whether the driver has the entry.
HasResolveBuffer(rb) == rb

\* A default case that reports success.
PerformDefaultOk == Failed(0)

\* default: err = -EINVAL
PerformDefault == Failed(-EINVAL)

\* The switch of drm_mod_perform, after drm_init; a holds the arguments of
\* the op and the outcomes of the driver calls it makes.
drm_mod_perform(op, a) ==
    CASE op = "GET_DRM_FD" ->
            Result(0, bos, all_records, nextBo, [fd |-> gralloc_drm_get_fd(a.g)])
      [] op = "DRM_IMPORT" ->
            IF gralloc_drm_handle(a.h) = NULL THEN Failed(-EINVAL)
            ELSE IF HasResolveBuffer(a.rb) THEN Failed(a.rerr)
            ELSE Failed(-EINVAL)
      [] op = "CREATE_BUFFER" ->
            LET r == drm_mod_create_buffer(a.w, a.format, a.drvBo, a.pad)
            IN  Result(r.err, r.bos, r.recs, r.next,
                       IF r.err = 0 THEN [handle |-> r.out.handle] ELSE NoOut)
      [] op = "DESTROY_BUFFER" -> drm_mod_destroy_buffer(a.h)
      [] OTHER -> PerformDefault

Return(op, h, r) == ReturnOf(op, h, 0, r)

\* ------------------------------------------------- the handlers as steps
\* What gralloc_drm_create() may return where drm_init would call it.
InitOutcomes == IF drm = NULL THEN CreateOutcomes ELSE {NoDev}

\* The effect of drm_init on the module.
EnsureDevice(c) ==
    /\ drm' = drm_init_drm(c)
    /\ device' = drm_init_device(c)

\* The arguments of a perform op and the outcomes of its driver calls.
NoArgs == [h |-> NULL, g |-> 0, rb |-> FALSE, rerr |-> 0,
           w |-> 0, format |-> "NONE", drvBo |-> FALSE, pad |-> 0]

\* drm_mod_open -> drm_mod_open_gpu0
Open(name, c) ==
    /\ nAlloc < MaxOpen
    /\ IF name # "gpu0"
       THEN /\ Return("open", NULL, Failed(-EINVAL))
            /\ UNCHANGED <<drm, device, nAlloc>>
       ELSE /\ EnsureDevice(c)
            /\ Return("open", NULL, Failed(drm_init(c)))
            /\ nAlloc' = IF drm_init(c) = 0 THEN nAlloc + 1 ELSE nAlloc
    /\ UNCHANGED thrVars

\* drm_mod_close_gpu0: gralloc_drm_destroy(dmod->drm); delete alloc
Close ==
    /\ nAlloc > 0
    /\ device' = [device EXCEPT !.alive = FALSE]
    /\ nAlloc' = nAlloc - 1
    /\ Return("close", NULL, Failed(0))
    /\ UNCHANGED <<drm, thrVars>>

\* drm_mod_alloc_gpu0
Alloc(w, format, drvBo, pad) ==
    /\ nAlloc > 0
    /\ drvBo => nextBo <= MaxBO
    /\ LET r == drm_mod_create_buffer(w, format, drvBo, pad)
       IN  Return("alloc", IF r.err = 0 THEN r.out.handle ELSE NULL, r)
    /\ UNCHANGED <<drm, device, nAlloc, thrVars>>

\* drm_mod_free_gpu0
Free(h) ==
    /\ nAlloc > 0
    /\ Return("free", h, drm_mod_destroy_buffer(h))
    /\ UNCHANGED <<drm, device, nAlloc, thrVars>>

\* drm_mod_perform
Perform(op, a, c) ==
    /\ (op = "CREATE_BUFFER" /\ a.drvBo) => nextBo <= MaxBO
    /\ EnsureDevice(c)
    /\ LET r == IF drm_init(c) # 0 THEN Failed(drm_init(c))
                ELSE drm_mod_perform(op, a)
       IN  Return(op, IF op = "CREATE_BUFFER" /\ r.err = 0 THEN r.out.handle
                      ELSE a.h, r)
    /\ UNCHANGED <<nAlloc, thrVars>>

PerformGetFd(c, g)       == Perform("GET_DRM_FD", [NoArgs EXCEPT !.g = g], c)
PerformImport(c, h, rb, rerr) ==
    Perform("DRM_IMPORT", [NoArgs EXCEPT !.h = h, !.rb = rb, !.rerr = rerr], c)
PerformCreate(c, w, format, drvBo, pad) ==
    Perform("CREATE_BUFFER",
            [NoArgs EXCEPT !.w = w, !.format = format, !.drvBo = drvBo,
                           !.pad = pad], c)
PerformDestroy(c, h)     == Perform("DESTROY_BUFFER", [NoArgs EXCEPT !.h = h], c)
PerformOther(c)          == Perform("OTHER", NoArgs, c)

\* drm_mod_register_buffer
Register(h, c, imported) ==
    /\ bos[h].refcount < MaxRef
    /\ h \in DOMAIN released => released[h] < MaxImport
    /\ EnsureDevice(c)
    /\ Return("register", h, IF drm_init(c) # 0 THEN Failed(drm_init(c))
                             ELSE drm_mod_register_buffer(h, imported))
    /\ UNCHANGED <<nAlloc, thrVars>>

\* drm_mod_unregister_buffer
Unregister(h) ==
    /\ Return("unregister", h, drm_mod_unregister_buffer(h))
    /\ UNCHANGED <<drm, device, nAlloc, thrVars>>

\* drm_mod_lock
Lock(h, ok, addr) ==
    /\ Return("lock", h, drm_mod_lock(h, ok, addr))
    /\ UNCHANGED <<drm, device, nAlloc, thrVars>>

\* drm_mod_lock_ycbcr
LockYcbcr(h, usage, ok, addr, pitches, offsets) ==
    /\ ReturnOf("lock_ycbcr", h, usage,
                drm_mod_lock_ycbcr(h, usage, ok, addr, pitches, offsets))
    /\ UNCHANGED <<drm, device, nAlloc, thrVars>>

\* drm_mod_unlock
Unlock(h) ==
    /\ Return("unlock", h, drm_mod_unlock(h))
    /\ UNCHANGED <<drm, device, nAlloc, thrVars>>

\* ------------------------------------------------- the specification
NoSeen == [dev |-> NULL, state |-> "none"]
NoDestroy == [calls |-> 0, live |-> 0, ok |-> 0, bad |-> 0, decref |-> 0,
              erase |-> 0]

InitThreads ==
    /\ mutex = NULL
    /\ pc = [t \in Threads |-> "idle"]
    /\ tmp = [t \in Threads |-> NULL]
    /\ seen = [t \in Threads |-> NoSeen]
    /\ ierr = [t \in Threads |-> 0]
    /\ devs = [d \in DevPtrs |-> "none"]
    /\ calls = [t \in Threads |-> 0]
    /\ hpc = [t \in Threads |-> "idle"]
    /\ hbo = [t \in Threads |-> NULL]
    /\ raced = [t \in Threads |-> FALSE]
    /\ dstat = [h \in Local |-> NoDestroy]

\* The module as loaded: .mutex = PTHREAD_MUTEX_INITIALIZER, .drm = NULL, an
\* empty registry; the handles of another process are at hand.
InitModule ==
    /\ drm = NULL
    /\ device = NoDev
    /\ nAlloc = 0
    /\ nextBo = 1
    /\ \E ff \in [Foreign -> ForeignFormats] :
          bos = [h \in Handles |->
                    IF h \in Foreign THEN [NoBo EXCEPT !.format = ff[h]] ELSE NoBo]
    /\ all_records = {}
    /\ last = [op |-> "load", h |-> NULL, usage |-> 0, err |-> 0, out |-> NoOut]
    /\ allocd = {}
    /\ freed = {}
    /\ fds = {}
    /\ InitThreads

Init ==
    /\ InitModule
    /\ hist = <<>>
    /\ released = <<>>

Widths  == 1..MaxW
Pads    == 0..MaxPad
DrvErrs == {0, -EINVAL}

\* The mapping address of the steps that are not about the address.
Addr0 == 1
LifeFormats == {"YV12", "UNKNOWN"}

\* What gralloc_drm_create() may return where drm_init would call it, for
\* the steps that are not about the descriptor: NULL, or one device.
OneOutcome == IF drm = NULL THEN {NoDev, [fd |-> MaxFd, alive |-> TRUE]} ELSE {NoDev}

\* Spec: the life cycle of the buffer objects and the registry.  Locks are
\* taken on the buffers of this process, at one mapping address.
Next ==
    \/ \E c \in OneOutcome : Open("gpu0", c)
    \/ Close
    \/ \E f \in LifeFormats, d \in BOOLEAN : Alloc(1, f, d, 0)
    \/ \E h \in Handles : Free(h)
    \/ \E c \in OneOutcome, f \in LifeFormats, d \in BOOLEAN :
          PerformCreate(c, 1, f, d, 0)
    \/ \E c \in OneOutcome, h \in Handles : PerformDestroy(c, h)
    \/ \E h \in Handles, c \in OneOutcome, i \in BOOLEAN : Register(h, c, i)
    \/ \E h \in Handles : Unregister(h)
    \/ \E h \in Local, ok \in BOOLEAN : Lock(h, ok, Addr0)
    \/ \E h \in Local : Unlock(h)

Spec == Init /\ [][Next]_vars

\* SpecDevice: the device, the allocator devices and the control channel, over
\* the handles of this process.
NextDevice ==
    \/ \E name \in Names, c \in InitOutcomes : Open(name, c)
    \/ Close
    \/ \E f \in LifeFormats, d \in BOOLEAN : Alloc(1, f, d, 0)
    \/ \E h \in Local : Free(h)
    \/ \E c \in InitOutcomes, g \in Fds : PerformGetFd(c, g)
    \/ \E c \in InitOutcomes, h \in Local, rb \in BOOLEAN, e \in DrvErrs :
          PerformImport(c, h, rb, e)
    \/ \E c \in InitOutcomes, f \in LifeFormats, d \in BOOLEAN :
          PerformCreate(c, 1, f, d, 0)
    \/ \E c \in InitOutcomes, h \in Local : PerformDestroy(c, h)
    \/ \E c \in InitOutcomes : PerformOther(c)
    \/ \E h \in Local, c \in InitOutcomes, i \in BOOLEAN : Register(h, c, i)

SpecDevice == Init /\ [][NextDevice]_vars

\* SpecImport: a process that imports the handles of another one; the
\* reference-counting calls on them are remembered.
InitImport ==
    /\ InitModule
    /\ hist = [h \in Foreign |-> <<>>]
    /\ released = [h \in Foreign |-> 0]

NextImport ==
    \/ \E c \in OneOutcome : Open("gpu0", c)
    \/ \E h \in Foreign : Free(h)
    \/ \E h \in Foreign, c \in OneOutcome, i \in BOOLEAN : Register(h, c, i)
    \/ \E h \in Foreign : Unregister(h)
    \/ \E c \in OneOutcome, h \in Foreign : PerformDestroy(c, h)
    \/ \E h \in Foreign, ok \in BOOLEAN, a \in Addrs : Lock(h, ok, a)
    \/ \E h \in Foreign : Unlock(h)

SpecImport == InitImport /\ [][NextImport]_vars

\* SpecAlloc: allocation over the formats, widths and row paddings.
NextAlloc ==
    \/ \E c \in OneOutcome : Open("gpu0", c)
    \/ \E w \in Widths, f \in Formats, d \in BOOLEAN, p \in Pads : Alloc(w, f, d, p)
    \/ \E c \in OneOutcome, w \in Widths, f \in Formats, d \in BOOLEAN, p \in Pads :
          PerformCreate(c, w, f, d, p)
    \/ \E h \in Handles : Free(h)

SpecAlloc == Init /\ [][NextAlloc]_vars

\* SpecPlanar: the lock paths of the first buffer over the formats and the
\* plane layouts.  The driver is asked for a mapping only when usage is set.
NextPlanar ==
    \/ \E c \in OneOutcome : Open("gpu0", c)
    \/ \E f \in Formats, d \in BOOLEAN : nextBo = 1 /\ Alloc(1, f, d, 0)
    \/ \E ok \in BOOLEAN, a \in Addrs : Lock(1, ok, a)
    \/ \E u \in Usages, ok \in BOOLEAN, a \in Addrs,
          pi \in PlanePitches, of \in PlaneOffsets :
          /\ u = 0 => ok /\ a = 1
          /\ LockYcbcr(1, u, ok, a, pi, of)
    \/ Unlock(1)

SpecPlanar == Init /\ [][NextPlanar]_vars

\* ------------------------------------------------- drm_init, by statement
\* SpecInit: host threads call drm_init (from open, register or perform)
\* and then use dmod->drm; one step per statement of drm_init.
otherMain == <<device, nAlloc, nextBo, bos, all_records, last,
               allocd, freed, released, hist, fds>>

\* A mutex that every thread passes.
MutexIgnored(t) == TRUE

\* pthread_mutex_lock(&dmod->mutex) returns once no thread holds the mutex.
MutexAvailable(t) == mutex = NULL

\* A handler is entered; its first statement is err = drm_init(dmod).
Call(t) ==
    /\ pc[t] = "idle"
    /\ calls[t] < MaxCalls
    /\ calls' = [calls EXCEPT ![t] = @ + 1]
    /\ pc' = [pc EXCEPT ![t] = "lock"]
    /\ ierr' = [ierr EXCEPT ![t] = 0]
    /\ UNCHANGED <<mainVars, raceVars, mutex, tmp, seen, devs>>

MutexLock(t) ==
    /\ pc[t] = "lock"
    /\ MutexAvailable(t)
    /\ mutex' = t
    /\ pc' = [pc EXCEPT ![t] = "test"]
    /\ UNCHANGED <<mainVars, raceVars, tmp, seen, ierr, devs, calls>>

\* if (!dmod->drm)
Test(t) ==
    /\ pc[t] = "test"
    /\ pc' = [pc EXCEPT ![t] = IF drm = NULL THEN "create" ELSE "unlock"]
    /\ UNCHANGED <<mainVars, raceVars, mutex, tmp, seen, ierr, devs, calls>>

\* gralloc_drm_create() starts: it fails, or it has a device under
\* construction.
Construct(t, ok) ==
    /\ pc[t] = "create"
    /\ IF ok /\ \E d \in DevPtrs : devs[d] = "none"
       THEN LET d == CHOOSE x \in DevPtrs :
                        devs[x] = "none" /\ \A y \in DevPtrs : devs[y] = "none" => x <= y
            IN  /\ devs' = [devs EXCEPT ![d] = "partial"]
                /\ tmp' = [tmp EXCEPT ![t] = d]
                /\ pc' = [pc EXCEPT ![t] = "finish"]
       ELSE /\ tmp' = [tmp EXCEPT ![t] = NULL]
            /\ pc' = [pc EXCEPT ![t] = "assign"]
            /\ UNCHANGED devs
    /\ UNCHANGED <<mainVars, raceVars, mutex, seen, ierr, calls>>

\* gralloc_drm_create() returns the constructed device.
Finish(t) ==
    /\ pc[t] = "finish"
    /\ devs' = [devs EXCEPT ![tmp[t]] = "complete"]
    /\ pc' = [pc EXCEPT ![t] = "assign"]
    /\ UNCHANGED <<mainVars, raceVars, mutex, tmp, seen, ierr, calls>>

\* dmod->drm = ...; if (!dmod->drm) err = -EINVAL
Assign(t) ==
    /\ pc[t] = "assign"
    /\ drm' = tmp[t]
    /\ ierr' = [ierr EXCEPT ![t] = IF tmp[t] = NULL THEN -EINVAL ELSE 0]
    /\ pc' = [pc EXCEPT ![t] = "unlock"]
    /\ UNCHANGED <<otherMain, raceVars, mutex, tmp, seen, devs, calls>>

\* pthread_mutex_unlock(&dmod->mutex); return err
MutexUnlock(t) ==
    /\ pc[t] = "unlock"
    /\ mutex' = NULL
    /\ pc' = [pc EXCEPT ![t] = "ret"]
    /\ UNCHANGED <<mainVars, raceVars, tmp, seen, ierr, devs, calls>>

\* if (err) return err; otherwise the handler uses dmod->drm.
Use(t) ==
    /\ pc[t] = "ret"
    /\ seen' = IF ierr[t] = 0
               THEN [seen EXCEPT ![t] = [dev |-> drm,
                                         state |-> IF drm = NULL THEN "none"
                                                   ELSE devs[drm]]]
               ELSE seen
    /\ pc' = [pc EXCEPT ![t] = "idle"]
    /\ UNCHANGED <<mainVars, raceVars, mutex, tmp, ierr, devs, calls>>

NextInit ==
    \/ \E t \in Threads : Call(t)
    \/ \E t \in Threads : MutexLock(t)
    \/ \E t \in Threads : Test(t)
    \/ \E t \in Threads, ok \in BOOLEAN : Construct(t, ok)
    \/ \E t \in Threads : Finish(t)
    \/ \E t \in Threads : Assign(t)
    \/ \E t \in Threads : MutexUnlock(t)
    \/ \E t \in Threads : Use(t)

SpecInit == Init /\ [][NextInit]_vars

\* ------------------------------------------------- the registry, by access
\* SpecRace: host threads call alloc, free and dump on the allocator device;
\* one step per statement of drm_mod_create_buffer and drm_mod_destroy_buffer,
\* and every access to all_records (insert, find, erase, the iteration of
\* dump) is entered and left in separate steps.  No statement of the three
\* handlers takes a lock.
raceRest == <<drm, device, nAlloc, last, released, hist, fds,
              mutex, pc, tmp, seen, ierr, devs>>

Inside  == {"inserting", "finding", "erasing", "dumping"}
Writing == {"inserting", "erasing"}

\* Two accesses that are in progress together, one of them a write: a data
\* race on the std::map.
Overlaps(p, q) == p \in Inside /\ q \in Inside /\ (p \in Writing \/ q \in Writing)

\* Thread t enters the access p.
EnterAccess(t, p) ==
    /\ hpc' = [hpc EXCEPT ![t] = p]
    /\ raced' = [u \in Threads |->
                    IF u = t THEN \E v \in Threads \ {t} : Overlaps(p, hpc[v])
                    ELSE raced[u] \/ Overlaps(p, hpc[u])]

\* Thread t returns from its call.
Returned(t) ==
    /\ hpc' = [hpc EXCEPT ![t] = "idle"]
    /\ hbo' = [hbo EXCEPT ![t] = NULL]
    /\ raced' = [raced EXCEPT ![t] = FALSE]

\* drm_mod_alloc_gpu0 -> drm_mod_create_buffer, up to gralloc_drm_bo_get_handle
TAlloc(t, drvBo) ==
    /\ hpc[t] = "idle"
    /\ calls[t] < MaxCalls
    /\ nAlloc > 0
    /\ drvBo => nextBo <= MaxBO
    /\ calls' = [calls EXCEPT ![t] = @ + 1]
    /\ IF drvBo
       THEN /\ bos' = [bos EXCEPT ![nextBo] = [refcount |-> 1, locked |-> FALSE,
                                               format |-> "YV12"]]
            /\ nextBo' = nextBo + 1
            /\ hbo' = [hbo EXCEPT ![t] = nextBo]
            /\ hpc' = [hpc EXCEPT ![t] = "insert"]
       ELSE UNCHANGED <<bos, nextBo, hbo, hpc>>
    /\ UNCHANGED <<all_records, allocd, freed, raced, dstat, raceRest>>

\* all_records.insert(...) is entered
TInsertEnter(t) ==
    /\ hpc[t] = "insert"
    /\ EnterAccess(t, "inserting")
    /\ UNCHANGED <<bos, nextBo, all_records, allocd, freed, hbo, dstat, calls,
                   raceRest>>

\* all_records.insert(...) returns; return 0.  kept: whether the entry is in
\* the map afterwards, which is open after a data race.
TInsertLeave(t, kept) ==
    /\ hpc[t] = "inserting"
    /\ ~raced[t] => kept
    /\ all_records' = IF kept THEN RegistryInsert(all_records, hbo[t])
                      ELSE all_records
    /\ allocd' = allocd \cup {hbo[t]}
    /\ Returned(t)
    /\ UNCHANGED <<bos, nextBo, freed, dstat, calls, raceRest>>

\* drm_mod_free_gpu0 -> drm_mod_destroy_buffer: bo = gralloc_drm_bo_from_handle
TFree(t, h) ==
    /\ hpc[t] = "idle"
    /\ calls[t] < MaxCalls
    /\ nAlloc > 0
    /\ h \in allocd
    /\ calls' = [calls EXCEPT ![t] = @ + 1]
    /\ IF gralloc_drm_bo_from_handle(h) = NULL
       THEN /\ dstat' = [dstat EXCEPT ![h].calls = @ + 1, ![h].bad = @ + 1]
            /\ UNCHANGED <<hpc, hbo>>
       ELSE /\ dstat' = [dstat EXCEPT ![h].calls = @ + 1,
                                      ![h].live = IF h \in all_records
                                                  THEN @ + 1 ELSE @]
            /\ hbo' = [hbo EXCEPT ![t] = gralloc_drm_bo_from_handle(h)]
            /\ hpc' = [hpc EXCEPT ![t] = "decref"]
    /\ UNCHANGED <<bos, nextBo, all_records, allocd, freed, raced, raceRest>>

\* gralloc_drm_bo_decref(bo); on a BO that another thread has released
\* meanwhile the call is made all the same, on freed memory.
TDecref(t) ==
    /\ hpc[t] = "decref"
    /\ bos' = IF bos[hbo[t]].refcount > 0 THEN gralloc_drm_bo_decref(bos, hbo[t])
              ELSE bos
    /\ dstat' = [dstat EXCEPT ![hbo[t]].decref = @ + 1]
    /\ hpc' = [hpc EXCEPT ![t] = "find"]
    /\ UNCHANGED <<nextBo, all_records, allocd, freed, hbo, raced, calls, raceRest>>

\* all_records.find(bo) is entered
TFindEnter(t) ==
    /\ hpc[t] = "find"
    /\ EnterAccess(t, "finding")
    /\ UNCHANGED <<bos, nextBo, all_records, allocd, freed, hbo, dstat, calls,
                   raceRest>>

\* all_records.find(bo) returns; if (it == all_records.end()) return -EINVAL.
\* found: what find reports, which is open after a data race.
TFindLeave(t, found) ==
    /\ hpc[t] = "finding"
    /\ ~raced[t] => (found <=> hbo[t] \in all_records)
    /\ IF found
       THEN /\ hpc' = [hpc EXCEPT ![t] = "erase"]
            /\ raced' = [raced EXCEPT ![t] = FALSE]
            /\ UNCHANGED <<hbo, dstat>>
       ELSE /\ dstat' = [dstat EXCEPT ![hbo[t]].bad = @ + 1]
            /\ Returned(t)
    /\ UNCHANGED <<bos, nextBo, all_records, allocd, freed, calls, raceRest>>

\* all_records.erase(it) is entered
TEraseEnter(t) ==
    /\ hpc[t] = "erase"
    /\ EnterAccess(t, "erasing")
    /\ UNCHANGED <<bos, nextBo, all_records, allocd, freed, hbo, dstat, calls,
                   raceRest>>

\* all_records.erase(it) returns; return 0.  erased: whether the entry is
\* gone afterwards, which is open after a data race and when another thread
\* has erased the entry since the find (the iterator is invalid).
TEraseLeave(t, erased) ==
    /\ hpc[t] = "erasing"
    /\ (~raced[t] /\ hbo[t] \in all_records) => erased
    /\ all_records' = IF erased THEN RegistryErase(all_records, hbo[t])
                      ELSE all_records
    /\ dstat' = [dstat EXCEPT ![hbo[t]].erase = @ + 1, ![hbo[t]].ok = @ + 1]
    /\ allocd' = allocd \ {hbo[t]}
    /\ freed' = freed \cup {hbo[t]}
    /\ Returned(t)
    /\ UNCHANGED <<bos, nextBo, calls, raceRest>>

\* drm_mod_dump_gpu0: the iteration over all_records is entered
TDumpEnter(t) ==
    /\ hpc[t] = "idle"
    /\ calls[t] < MaxCalls
    /\ nAlloc > 0
    /\ calls' = [calls EXCEPT ![t] = @ + 1]
    /\ EnterAccess(t, "dumping")
    /\ UNCHANGED <<bos, nextBo, all_records, allocd, freed, hbo, dstat, raceRest>>

\* drm_mod_dump_gpu0 returns
TDumpLeave(t) ==
    /\ hpc[t] = "dumping"
    /\ Returned(t)
    /\ UNCHANGED <<bos, nextBo, all_records, allocd, freed, dstat, calls, raceRest>>

NextRace ==
    \/ \E c \in OneOutcome : Open("gpu0", c)
    \/ \E t \in Threads, d \in BOOLEAN : TAlloc(t, d)
    \/ \E t \in Threads : TInsertEnter(t)
    \/ \E t \in Threads, k \in BOOLEAN : TInsertLeave(t, k)
    \/ \E t \in Threads, h \in Local : TFree(t, h)
    \/ \E t \in Threads : TDecref(t)
    \/ \E t \in Threads : TFindEnter(t)
    \/ \E t \in Threads, f \in BOOLEAN : TFindLeave(t, f)
    \/ \E t \in Threads : TEraseEnter(t)
    \/ \E t \in Threads, e \in BOOLEAN : TEraseLeave(t, e)
    \/ \E t \in Threads : TDumpEnter(t)
    \/ \E t \in Threads : TDumpLeave(t)

SpecRace == Init /\ [][NextRace]_vars

\* ------------------------------------------------- dump
\* The iteration order of std::map: ascending keys.
RECURSIVE MapOrder(_)
MapOrder(S) ==
    IF S = {} THEN <<>>
    ELSE LET m == CHOOSE x \in S : \A y \in S : x <= y
         IN  <<m>> \o MapOrder(S \ {m})

Max(a, b) == IF a >= b THEN a ELSE b
Min(a, b) == IF a <= b THEN a ELSE b

\* snprintf(buff + used, size, ...) of a text of n characters: the index one
\* past the last byte it writes, 0 if it writes none.  size is the int
\* buff_len - used; as a size_t a negative one is a huge one, and the whole
\* text and its terminator are written.
SnprintfEnd(used, size, n) ==
    IF size = 0 THEN 0
    ELSE IF size < 0 THEN used + n + 1
    ELSE used + Min(n, size - 1) + 1

\* The text and its terminator have room in size bytes.
SnprintfComplete(size, n) == size > n

BufLens  == 0..MaxLen
LineLens == (LineFixed + MinVar)..(LineFixed + MinVar + MaxVar)

\* The loop of drm_mod_dump_gpu0 over the entries keys, lens[bo] being the
\* length of the line of bo.  lines: the BOs whose line is in the buffer
\* completely; sizes: the size arguments handed to snprintf; end: one past
\* the last byte written.
RECURSIVE DumpEntries(_, _, _, _, _)
DumpEntries(keys, used, len, lens, acc) ==
    IF keys = <<>> THEN acc
    ELSE LET bo   == Head(keys)
             size == len - used
             n    == lens[bo]
             a    == [lines |-> IF SnprintfComplete(size, n)
                                THEN Append(acc.lines, bo) ELSE acc.lines,
                      sizes |-> Append(acc.sizes, size),
                      end   |-> Max(acc.end, SnprintfEnd(used, size, n)),
                      used  |-> used + n,
                      len   |-> len]
         IN  IF used + n >= len THEN a
             ELSE DumpEntries(Tail(keys), used + n, len, lens, a)

drm_mod_dump_gpu0(len, lens) ==
    DumpEntries(MapOrder(all_records), HeaderLen, len, lens,
                [lines |-> <<>>,
                 sizes |-> <<len>>,
                 end   |-> SnprintfEnd(0, len, HeaderLen),
                 used  |-> HeaderLen,
                 len   |-> len])

\* alloc->dump
Dump(len, lens) ==
    /\ nAlloc > 0
    /\ Return("dump", NULL,
              Result(0, bos, all_records, nextBo, drm_mod_dump_gpu0(len, lens)))
    /\ UNCHANGED <<drm, device, nAlloc, thrVars>>

\* SpecDump: the registry and its dump, beside the imports of the handles of
\* another process.  A dump leaves everything but the
\* record of the call as it is, so a dump that follows a dump reaches no state
\* the first one does not reach, and is left out.
NextDump ==
    \/ \E c \in OneOutcome : Open("gpu0", c)
    \/ \E d \in BOOLEAN : Alloc(1, "YV12", d, 0)
    \/ \E h \in Local : Free(h)
    \/ \E h \in Foreign, c \in OneOutcome : Register(h, c, TRUE)
    \/ \E h \in Foreign : Unregister(h)
    \/ \E len \in BufLens, lens \in [Local -> LineLens] :
          last.op # "dump" /\ Dump(len, lens)

SpecDump == Init /\ [][NextDump]_vars

\* ================================================= the claims
\* ------------------------------------------------- C1
\* C1: in every reachable state the key set of the registry is the set of
\* buffer objects a successful alloc or perform(CREATE_BUFFER) created and no
\* successful free or perform(DESTROY_BUFFER) has freed; register, unregister,
\* lock and unlock leave it alone.
C1_RegistryIsAllocated == all_records = allocd

\* An unregister of a BO of the registry succeeded and left the BO live: the
\* registry still holds it.
C1_Witness ==
    /\ last.op = "unregister" /\ last.err = 0
    /\ last.h \in all_records
    /\ bos[last.h].refcount > 0

\* ------------------------------------------------- C2
\* C2: the first free of an allocated handle whose BO is live succeeds; a
\* later free (or perform(DESTROY_BUFFER)) of it fails with BadHandle, leaves
\* the reference count as it is and leaves the registry as it is.
C2_DoubleFree ==
    [][\A h \in Local :
          (last'.op \in DestroyOps /\ last'.h = h) =>
             /\ (h \in allocd /\ bos[h].refcount > 0) => last'.err = 0
             /\ h \in freed =>
                   /\ last'.err = BadHandle
                   /\ bos'[h].refcount = bos[h].refcount
                   /\ all_records' = all_records]_vars

\* ------------------------------------------------- C8
\* C8: a free, a perform(DESTROY_BUFFER) or an unregister of the last
\* reference made while the BO is locked returns an error, leaves the
\* reference count as it is and leaves the registry as it is.
C8_LockedNotDestroyed ==
    [][\A h \in Handles :
          (/\ bos[h].locked
           /\ last'.h = h
           /\ \/ last'.op \in DestroyOps
              \/ last'.op = "unregister" /\ bos[h].refcount = 1) =>
             /\ last'.err # 0
             /\ bos'[h].refcount = bos[h].refcount
             /\ all_records' = all_records]_vars

\* ------------------------------------------------- C4
\* C4: a successful alloc of width w returns a pixel stride with
\* stride >= w and stride * bpp <= byte pitch, the driver's byte pitch being
\* at least w * bpp.
C4_StrideBounds ==
    (/\ last.op = "alloc" /\ last.err = 0
     /\ last.out.pitch >= last.out.width * last.out.bpp) =>
        /\ last.out.stride >= last.out.width
        /\ last.out.stride * last.out.bpp <= last.out.pitch

\* An alloc returned a stride larger than the width from a byte pitch that
\* is no multiple of the bytes per pixel.
C4_Witness ==
    /\ last.op = "alloc" /\ last.err = 0
    /\ last.out.pitch % last.out.bpp # 0
    /\ last.out.stride > last.out.width

\* ------------------------------------------------- C5
\* C5: every perform(GET_DRM_FD) of the process returns the same descriptor.
C5_SameDescriptor == Cardinality(fds) <= 1

\* ------------------------------------------------- C6
\* C6, as claimed: perform with an unknown op returns BadOp and leaves the
\* device state and the registry as they are, from every state.
C6_UnknownOpChangesNothing ==
    [][last'.op = "OTHER" =>
          /\ last'.err = BadOp
          /\ DeviceState' = DeviceState
          /\ all_records' = all_records]_vars

\* C6, amended: perform with an unknown op returns -EINVAL and leaves the
\* registry and the buffer objects as they are; it leaves the device state
\* as it is once the device has been brought up, and from Unborn it goes
\* through drm_init, so the device stays Unborn or becomes Live.
C6_UnknownOp ==
    [][last'.op = "OTHER" =>
          /\ last'.err = BadOp
          /\ all_records' = all_records
          /\ bos' = bos
          /\ drm # NULL => DeviceState' = DeviceState
          /\ drm = NULL => DeviceState' \in {"Unborn", "Live"}]_vars

\* An unknown op was performed with the device up and a BO in the registry.
C6_Witness ==
    /\ last.op = "OTHER" /\ last.err = BadOp
    /\ drm # NULL /\ all_records # {}

\* ------------------------------------------------- C7
\* C7: under every interleaving of the threads in drm_init the driver
\* adapter constructs at most one device, dmod->drm never points to a device
\* under construction, and the callers that return success all use one and
\* the same, completely constructed device.
C7_BringUpOnce ==
    /\ Cardinality({d \in DevPtrs : devs[d] # "none"}) <= 1
    /\ drm # NULL => devs[drm] = "complete"
    /\ \A t \in Threads :
          seen[t] # NoSeen =>
             /\ seen[t].dev # NULL
             /\ seen[t].state = "complete"
             /\ \A u \in Threads : seen[u] # NoSeen => seen[u].dev = seen[t].dev

\* Two threads have used the device, one of them after a bring-up of its own
\* that failed.
C7_Witness ==
    \E t, u \in Threads :
       /\ t # u
       /\ seen[t] # NoSeen /\ seen[u] # NoSeen
       /\ calls[t] > 1

\* ------------------------------------------------- C3
\* C3: when the calls on an imported handle are register, register,
\* unregister, unregister, each returning success, its BO is live and has
\* never been released up to and including the first unregister, and after
\* the second unregister it is gone and has been released exactly once.
C3_ReleasedAtSecondUnregister ==
    \A h \in DOMAIN hist :
       /\ hist[h] \in {<<R0>>, <<R0, R0>>, <<R0, R0, U0>>} =>
             released[h] = 0 /\ bos[h].refcount > 0
       /\ hist[h] = <<R0, R0, U0, U0>> =>
             released[h] = 1 /\ bos[h].refcount = 0

\* The four calls have been made on an imported handle.
C3_Witness == \E h \in DOMAIN hist : hist[h] = <<R0, R0, U0, U0>>

\* ------------------------------------------------- C9
PlanarFormats == {"YV12", "YCbCr_420_888"}

\* C9, as claimed: on a live BO lock_ycbcr returns success with ystride =
\* pitches[0] and cstride = pitches[1] for YV12 and YCbCr_420_888, and for
\* every other format it returns BadFormat, maps nothing and leaves the lock
\* state as it is.
C9_PlanarExactly ==
    [][(last'.op = "lock_ycbcr" /\ bos[last'.h].refcount > 0) =>
          IF bos[last'.h].format \in PlanarFormats
          THEN /\ last'.err = 0
               /\ last'.out.ystride = last'.out.pitches[0]
               /\ last'.out.cstride = last'.out.pitches[1]
          ELSE /\ last'.err = BadFormat
               /\ last'.out = NoOut
               /\ bos' = bos]_vars

\* C9, amended: for YV12 and YCbCr_420_888 lock_ycbcr returns success with
\* ystride = pitches[0] and cstride = pitches[1] unless usage # 0 and the
\* driver's lock fails; then it returns the driver's error, fills in nothing
\* and leaves the lock state as it is.  For every other format it returns
\* BadFormat, maps nothing and leaves the lock state as it is.
C9_PlanarOrLockError ==
    [][(last'.op = "lock_ycbcr" /\ bos[last'.h].refcount > 0) =>
          IF bos[last'.h].format \in PlanarFormats
          THEN \/ /\ last'.err = 0
                  /\ last'.out.ystride = last'.out.pitches[0]
                  /\ last'.out.cstride = last'.out.pitches[1]
               \/ /\ last'.usage # 0
                  /\ last'.err # 0
                  /\ last'.out = NoOut
                  /\ bos' = bos
          ELSE /\ last'.err = BadFormat
               /\ last'.out = NoOut
               /\ bos' = bos]_vars

\* A planar lock with a mapping succeeded and reported two different
\* pitches.
C9_Witness ==
    /\ last.op = "lock_ycbcr" /\ last.err = 0 /\ last.usage # 0
    /\ last.out.pitches[0] # last.out.pitches[1]
    /\ last.out.ystride # last.out.cstride

\* ------------------------------------------------- C10
\* C10: lock_ycbcr with usage = 0 on a planar buffer returns success, maps
\* nothing and reports null y, cb and cr, whatever the plane offsets.
C10_NullWithoutMapping ==
    [][(/\ last'.op = "lock_ycbcr" /\ last'.usage = 0
        /\ bos[last'.h].refcount > 0
        /\ bos[last'.h].format \in PlanarFormats) =>
          /\ last'.err = 0
          /\ bos' = bos
          /\ IsNullPtr(last'.out.y)
          /\ IsNullPtr(last'.out.cb)
          /\ IsNullPtr(last'.out.cr)]_vars

\* ------------------------------------------------- C11
Range(f) == {f[i] : i \in DOMAIN f}

C12_DumpWithinLen ==
    last.op = "dump" =>
       /\ \A i \in DOMAIN last.out.sizes : last.out.sizes[i] >= 0
       /\ last.out.end <= last.out.len

\* ------------------------------------------------- C13
\* C13: a planar lock with a mapping reports cb = base + (offsets[1] -
\* offsets[0]) and cr = base + (offsets[2] - offsets[0]), without wrap-around,
\* for all offsets with offsets[0] <= offsets[1] and offsets[0] <= offsets[2].
C13_ChromaFromPlane0 ==
    (/\ last.op = "lock_ycbcr" /\ last.usage # 0 /\ last.err = 0
     /\ last.out.offsets[0] <= last.out.offsets[1]
     /\ last.out.offsets[0] <= last.out.offsets[2]) =>
        LET base == last.out.y.base
            o    == last.out.offsets
        IN  /\ last.out.cb = [base |-> base, wraps |-> 0, delta |-> o[1] - o[0]]
            /\ last.out.cr = [base |-> base, wraps |-> 0, delta |-> o[2] - o[0]]

\* ------------------------------------------------- C15
LockOps == {"lock", "lock_ycbcr"}

\* C15, as claimed: a lock or a planar lock that returns success leaves the
\* BO locked, one that fails leaves the lock state as it is, and an unlock
\* that returns success leaves the BO unlocked.
C15_LockedAfterSuccess ==
    [][/\ (last'.op \in LockOps /\ last'.err = 0) => bos'[last'.h].locked
       /\ (last'.op \in LockOps /\ last'.err # 0) => bos' = bos
       /\ (last'.op = "unlock" /\ last'.err = 0) => ~bos'[last'.h].locked]_vars

\* C15, amended: a lock, or a planar lock with usage # 0, that returns
\* success leaves the BO locked; a planar lock with usage = 0 that returns
\* success maps nothing and leaves the lock state as it is; a lock or planar
\* lock that fails leaves the lock state as it is; an unlock that returns
\* success leaves the BO unlocked.
C15_LockedAfterMapping ==
    [][/\ (/\ last'.op \in LockOps /\ last'.err = 0
           /\ last'.op = "lock_ycbcr" => last'.usage # 0) =>
             bos'[last'.h].locked
       /\ (last'.op = "lock_ycbcr" /\ last'.err = 0 /\ last'.usage = 0) =>
             bos' = bos
       /\ (last'.op \in LockOps /\ last'.err # 0) => bos' = bos
       /\ (last'.op = "unlock" /\ last'.err = 0) => ~bos'[last'.h].locked]_vars

\* A planar lock with a mapping succeeded and the BO is locked.
C15_Witness ==
    /\ last.op = "lock_ycbcr" /\ last.err = 0 /\ last.usage # 0
    /\ bos[last.h].locked

\* ------------------------------------------------- C16
CreateArgs(w, f, d, p) ==
    [NoArgs EXCEPT !.w = w, !.format = f, !.drvBo = d, !.pad = p]

\* C16: in every reachable state and for every width, format, driver outcome
\* and padding, drm_mod_create_buffer (called by alloc and, with the device
\* up, by perform(CREATE_BUFFER)) returns BadFormat for a format without bpp,
\* whatever the driver would do, and OutOfMemory when the driver returns no
\* BO; a failed call leaves the registry and the buffer objects as they are
\* and writes no handle.  IMPLEMENTATION_DEFINED never gives BadFormat, and
\* the BO it creates has the format RGBA_8888.  A create that failed has
\* left no handle in the record of the call.
C16_FailedCreateNoEffect ==
    /\ \A w \in Widths, f \in Formats, p \in Pads,
          d \in {x \in BOOLEAN : x => nextBo <= MaxBO} :
          \A r \in {drm_mod_create_buffer(w, f, d, p),
                    drm_mod_perform("CREATE_BUFFER", CreateArgs(w, f, d, p))} :
             LET bpp == gralloc_drm_get_bpp(IF f = "IMPLEMENTATION_DEFINED"
                                            THEN "RGBA_8888" ELSE f)
             IN  /\ bpp = 0 => r.err = BadFormat
                 /\ (bpp # 0 /\ ~d) => r.err = OutOfMemory
                 /\ r.err # 0 =>
                       /\ r.recs = all_records
                       /\ r.bos = bos
                       /\ r.next = nextBo
                       /\ r.out = NoOut
                 /\ f = "IMPLEMENTATION_DEFINED" =>
                       /\ r.err \in {0, OutOfMemory}
                       /\ r.err = 0 => r.bos[r.out.handle].format = "RGBA_8888"
    /\ (last.op \in CreateOps /\ last.err # 0) =>
          last.out = NoOut /\ last.h = NULL

\* A create failed for want of memory while the registry held a BO.
C16_Witness ==
    /\ last.op \in CreateOps /\ last.err = OutOfMemory
    /\ all_records # {}

\* ------------------------------------------------- C17
\* The operations that begin with drm_init.
EnsureOps == {"open", "register", "GET_DRM_FD", "DRM_IMPORT", "CREATE_BUFFER",
              "DESTROY_BUFFER", "OTHER"}

\* C17: an open, a register or a perform op whose device bring-up fails (the
\* device was Unborn and gralloc_drm_create returned NULL) returns DeviceInit
\* and does nothing else: the buffer objects, the registry and the number of
\* allocator devices are as before and no out-parameter is written; the
\* device is still Unborn, the mutex is free, and the next drm_init calls
\* gralloc_drm_create again.
C17_BringUpFailure ==
    [][(last'.op \in EnsureOps /\ drm = NULL /\ drm' = NULL) =>
          /\ last'.err = DeviceInit
          /\ bos' = bos
          /\ all_records' = all_records
          /\ nextBo' = nextBo
          /\ nAlloc' = nAlloc
          /\ fds' = fds
          /\ last'.out = NoOut
          /\ DeviceState' = "Unborn"
          /\ mutex' = NULL
          /\ InitOutcomes' = CreateOutcomes]_vars

\* A perform(GET_DRM_FD) failed in the bring-up of the device.
C17_Witness ==
    /\ last.op = "GET_DRM_FD" /\ last.err = DeviceInit
    /\ drm = NULL

\* ------------------------------------------------- C18
\* The operations that hand dmod->drm to the driver adapter when they
\* succeed.
DeviceOps == {"alloc", "CREATE_BUFFER", "GET_DRM_FD"}

\* C18: after a close dmod->drm does not point to the destroyed device, and
\* no alloc, perform(CREATE_BUFFER) or perform(GET_DRM_FD) hands a destroyed
\* device to the driver adapter.
C18_NoDestroyedDevice ==
    [][/\ last'.op = "close" => DeviceState' # "Dead"
       /\ (last'.op \in DeviceOps /\ last'.err = 0) => DeviceState' = "Live"]_vars

\* ------------------------------------------------- C20
\* C20: a free or perform(DESTROY_BUFFER) of an imported handle, whose BO is
\* not in the registry, returns BadHandle, leaves the reference count as it
\* is and releases nothing.
C20_ForeignFreeKeepsReference ==
    [][\A h \in Foreign :
          (last'.op \in DestroyOps /\ last'.h = h) =>
             /\ last'.err = BadHandle
             /\ bos'[h].refcount = bos[h].refcount
             /\ released' = released]_vars

\* ------------------------------------------------- C14
\* C14: under every interleaving of the threads no two accesses to the
\* registry are in progress together when one of them is an insert or an
\* erase.
C14_RegistrySerialized ==
    \A t, u \in Threads : t # u => ~Overlaps(hpc[t], hpc[u])

\* ------------------------------------------------- C19
\* C19: when two free calls have been made on one allocated handle, the
\* first of them with its BO live and in the registry and the second before
\* the first has returned, and both have returned, one has returned success
\* and the other BadHandle, gralloc_drm_bo_decref has been called once on the
\* BO and its entry has been erased once.
C19_ConcurrentFree ==
    \A h \in Local :
       (/\ dstat[h].calls = 2 /\ dstat[h].live >= 1
        /\ dstat[h].ok + dstat[h].bad = 2) =>
          /\ dstat[h].ok = 1 /\ dstat[h].bad = 1
          /\ dstat[h].decref = 1
          /\ dstat[h].erase = 1

====
